---- MODULE Spec2Model ----
(***************************************************************************)
(* Model of tools/vector.py: the retrieval-augmented question answering    *)
(* chain kg_qa (RetrievalQA, chain_type "stuff") over the Neo4j vector     *)
(* index split_text_embedding with the retrieval query RETRIEVAL_QUERY,    *)
(* and its caller generate_response.                                       *)
(*                                                                         *)
(* The chain is entered through generate_response, or directly through     *)
(* the module-level object kg_qa under the chain's own input key.          *)
(*                                                                         *)
(* The graph database is read-only for this module: its contents are       *)
(* chosen in Init and never change.  One request is followed from the call *)
(* to its return or failure.  Similarity scores are kept in hundredths     *)
(* (0.87 is 87).  Cypher lists whose order the query does not fix          *)
(* (collect, pattern comprehensions) are kept as bags.                     *)
(***************************************************************************)
EXTENDS Integers, FiniteSets, Sequences, Bags, TLC

VARIABLES
    db,        \* the graph database: labels, relationships, absent properties,
               \* indexed chunks and their similarity score to the query
    pc,        \* position of the request
    caller,    \* who invoked the chain
    inputs,    \* the dictionary handed to kg_qa
    yielded,   \* chunks the vector index yielded (top k)
    bundles,   \* rows returned by the retrieval query (context bundles)
    docs,      \* documents kept by the score threshold
    llmInput,  \* what the language model was invoked with
    outputs,   \* the chain's output dictionary
    result,    \* value returned to the caller
    error,     \* the stage that raised, or "none"
    calls      \* number of invocations of each collaborator in this request

vars == <<db, pc, caller, inputs, yielded, bundles, docs, llmInput, outputs,
          result, error, calls>>

(***************************************************************************)
(* Program constants                                                       *)
(***************************************************************************)
\* search_kwargs k
K == 3
\* search_kwargs score_threshold, in hundredths
ScoreThreshold == 87
\* LIMIT of the retrieval query
Limit == 3
\* RetrievalQA reads its question under this key and answers under OutputKey
InputKey == "query"
OutputKey == "result"
\* the keys generate_response uses
CallKey == "question"
AnswerKey == "answer"

(***************************************************************************)
(* Bounds of the model                                                     *)
(***************************************************************************)
\* chunks in the vector index
MaxChunks == 4
\* relationships around the parent document, besides the chunk's CHILD_OF
MaxNbrRels == 3
\* labels on one neighbour node
MaxLabels == 2

Prompts == {"q1", "q2"}
Answers == {"a1", "a2"}
\* similarity scores of the indexed chunks: just below and at the threshold
ScoreValues == {ScoreThreshold - 1, ScoreThreshold}

(***************************************************************************)
(* Graph data                                                              *)
(***************************************************************************)
RecognizedKinds == {"Company", "News", "NewsCategory", "Date", "Industry",
                    "Sector", "SubSector", "SuperSector", "Tag", "Person",
                    "Organisation", "Position"}
\* x:Resource|SplitText|Rns
HelperKinds == {"Resource", "SplitText", "Rns"}
AllLabels == RecognizedKinds \cup HelperKinds \cup {"Other"}

ChunkIds == 1..MaxChunks
NewsIds == {101, 102}
CompanyIds == {201, 202}
NodeIds == ChunkIds \cup NewsIds \cup CompanyIds \cup {301, 302, 303, 304, 305}

\* property values: the value of attribute a on node x, null, and the empty map
Null == [of |-> 0, attr |-> "null"]
EmptyMap == [of |-> 0, attr |-> "{}"]
Prop(x, a) == IF <<x, a>> \in db.missing THEN Null ELSE [of |-> x, attr |-> a]

Rel(i, t, s, e) == [id |-> i, type |-> t, start |-> s, end |-> e]

BaseLabels(x) ==
    IF x \in ChunkIds THEN {"SplitText"}
    ELSE IF x \in NewsIds THEN {"News"}
    ELSE IF x = 201 THEN {"Company"}
    ELSE IF x = 202 THEN {"Company", "Organisation"}
    ELSE IF x = 301 THEN {"Tag"}
    ELSE IF x = 302 THEN {"Person"}
    ELSE IF x = 303 THEN {"Rns"}
    ELSE IF x = 304 THEN {"Resource", "Industry"}
    ELSE {"Other"}

\* the candidate relationships around document 101 (parallel relationships
\* have their own ids), besides the chunk's CHILD_OF
NbrPool ==
    { Rel(13, "CHILD_OF", 1, 101),
      Rel(51, "PUBLISHED_BY", 101, 201),
      Rel(55, "PUBLISHED_BY", 101, 201),
      Rel(56, "PUBLISHED_BY", 101, 202),
      Rel(54, "HAS_TAG", 101, 301),
      Rel(57, "HAS_TAG", 101, 301),
      Rel(58, "MENTIONS", 302, 101),
      Rel(59, "HAS_RNS", 101, 303),
      Rel(60, "IN_INDUSTRY", 101, 304),
      Rel(61, "PUBLISHED_BY", 101, 305) }

AllAttrs == {"company_name", "headline_name", "category", "date", "industry",
             "sector", "subsector", "supersector", "tag_name", "person_name",
             "organisation_name", "position_name"}

NonIncreasing(sc, n) == \A i \in 1..n : \A j \in i..n : sc[i] >= sc[j]

\* Index contents: n chunks, scores non-increasing in the chunk number, each
\* chunk with no parent document, one (102) or two (101 and 102); document
\* 101 has one publisher and a tag, document 102 two publishers; the chunks
\* carry their split_id or none does.
IndexDatabase(n, sc, par, m) ==
    [labels  |-> [x \in NodeIds |-> BaseLabels(x)],
     rels    |-> {Rel(10 * cp[1] + (cp[2] - 100), "CHILD_OF", cp[1], cp[2]) :
                     cp \in {q \in (1..n) \X NewsIds : q[2] \in par[q[1]]}}
                 \cup {Rel(51, "PUBLISHED_BY", 101, 201),
                       Rel(52, "PUBLISHED_BY", 102, 201),
                       Rel(53, "PUBLISHED_BY", 102, 202),
                       Rel(54, "HAS_TAG", 101, 301)},
     missing |-> m,
     chunks  |-> 1..n,
     score   |-> sc]

\* Neighbourhood contents: one chunk above the threshold, child of document
\* 101, and up to MaxNbrRels relationships of the pool around the document.
NeighbourDatabase(S, cl) ==
    [labels  |-> [x \in NodeIds |-> IF x = 1 THEN cl ELSE BaseLabels(x)],
     rels    |-> {Rel(11, "CHILD_OF", 1, 101)} \cup S,
     missing |-> {},
     chunks  |-> {1},
     score   |-> [ch \in {1} |-> ScoreThreshold + 8]]

\* Label contents: one chunk, its document and publisher, and one neighbour
\* 301 of the document carrying up to MaxLabels labels, linked in either
\* direction, with its attributes present or absent.
LabelDatabase(L, r, m) ==
    [labels  |-> [x \in NodeIds |-> IF x = 301 THEN L ELSE BaseLabels(x)],
     rels    |-> {Rel(11, "CHILD_OF", 1, 101),
                  Rel(51, "PUBLISHED_BY", 101, 201), r},
     missing |-> m,
     chunks  |-> {1},
     score   |-> [ch \in {1} |-> ScoreThreshold]]

InitDb ==
    \/ \E n \in 0..MaxChunks :
         \E sc \in {f \in [1..n -> ScoreValues] : NonIncreasing(f, n)} :
           \E par \in [1..n -> {{}, {102}, NewsIds}] :
             \E m \in {{}, {<<ch, "split_id">> : ch \in 1..n}} :
               db = IndexDatabase(n, sc, par, m)
    \/ \E S \in {T \in SUBSET NbrPool : Cardinality(T) <= MaxNbrRels} :
         \E cl \in {{"SplitText"}, {"Other"}} :
           db = NeighbourDatabase(S, cl)
    \/ \E L \in {T \in SUBSET AllLabels : Cardinality(T) <= MaxLabels} :
         \E r \in {Rel(54, "HAS_TAG", 101, 301), Rel(58, "MENTIONS", 301, 101)} :
           \E m \in {{}, {301} \X AllAttrs} :
             db = LabelDatabase(L, r, m)

Init ==
    /\ InitDb
    /\ pc = "idle"
    /\ caller = "none"
    /\ inputs = [key |-> "none", value |-> "none"]
    /\ yielded = {}
    /\ bundles = EmptyBag
    /\ docs = EmptyBag
    /\ llmInput = [context |-> EmptyBag, question |-> "none", invoked |-> FALSE]
    /\ outputs = [key |-> "none", value |-> "none"]
    /\ result = "none"
    /\ error = "none"
    /\ calls = [embed |-> 0, db |-> 0, llm |-> 0]

(***************************************************************************)
(* RETRIEVAL_QUERY, run after                                              *)
(*   CALL db.index.vector.queryNodes($index, $k, $embedding)               *)
(*   YIELD node, score                                                     *)
(***************************************************************************)
Labels(x) == db.labels[x]
Score(node) == db.score[node]
MinOf(a, b) == IF a <= b THEN a ELSE b

\* the bag of the values of a set P of <<row, value>> pairs: one copy of a
\* value for each row that has it
BagOf(P) == [v \in {p[2] : p \in P} |-> Cardinality({p \in P : p[2] = v})]
\* the bag with one copy of each element of B
Distinct(B) == [v \in DOMAIN B |-> 1]
BagSize(B) == BagCardinality(B)

\* the k nearest chunks: any k chunks no other chunk scores higher than
TopK(k) ==
    { Y \in SUBSET db.chunks :
        /\ Cardinality(Y) = MinOf(k, Cardinality(db.chunks))
        /\ \A s \in Y : \A t \in db.chunks \ Y : Score(s) >= Score(t) }

\* MATCH (node)-[:CHILD_OF]->(n:News)-[:PUBLISHED_BY]->(c:Company)
ParentMatches(node) ==
    { m \in [child : db.rels, pub : db.rels] :
        /\ m.child.type = "CHILD_OF" /\ m.child.start = node
        /\ "News" \in Labels(m.child.end)
        /\ m.pub.type = "PUBLISHED_BY" /\ m.pub.start = m.child.end
        /\ "Company" \in Labels(m.pub.end) }

\* MATCH path = (n)-[r*..1]-(): one relationship, either direction
Paths(n) == { r \in db.rels : r.start = n \/ r.end = n }

\* mutant: the helper filter left out
NoHelperOff(r) == TRUE

\* where none(x in nodes(path) where x:Resource|SplitText|Rns)
NoHelper(r) == \A x \in {r.start, r.end} : Labels(x) \cap HelperKinds = {}

\* the rows after both MATCH clauses, for the yielded chunks Y
MatchRows(Y) ==
    UNION { { [node |-> node, child |-> m.child, pub |-> m.pub, rels |-> r] :
                r \in {p \in Paths(m.child.end) : NoHelper(p)} } :
            <<node, m>> \in { nm \in Y \X [child : db.rels, pub : db.rels] :
                                nm[2] \in ParentMatches(nm[1]) } }

\* the CASE of the query: the first kind, in this order, among the labels
KindAttr == << <<"Company", "company_name">>, <<"News", "headline_name">>,
               <<"NewsCategory", "category">>, <<"Date", "date">>,
               <<"Industry", "industry">>, <<"Sector", "sector">>,
               <<"SubSector", "subsector">>, <<"SuperSector", "supersector">>,
               <<"Tag", "tag_name">>, <<"Person", "person_name">>,
               <<"Organisation", "organisation_name">>,
               <<"Position", "position_name">> >>

\* mutant: the last matching WHEN wins
LastWhen(x) ==
    LET hits == {i \in 1..Len(KindAttr) : KindAttr[i][1] \in Labels(x)}
    IN  IF hits = {} THEN 0 ELSE CHOOSE i \in hits : \A j \in hits : i >= j

FirstWhen(x) ==
    LET hits == {i \in 1..Len(KindAttr) : KindAttr[i][1] \in Labels(x)}
    IN  IF hits = {} THEN 0 ELSE CHOOSE i \in hits : \A j \in hits : i <= j

DisplayLabel(x) ==
    IF FirstWhen(x) = 0 THEN EmptyMap ELSE Prop(x, KindAttr[FirstWhen(x)][2])

\* the 6-tuple collected for one relationship
RelTuple(r) ==
    <<r.start, DisplayLabel(r.start), r.id, r.type, r.end, DisplayLabel(r.end)>>

\* WITH score, n, c, node, collect(...): the grouping key of a row
GroupKey(w) == [node |-> w.node, n |-> w.child.end, c |-> w.pub.end]
Groups(Y) == { GroupKey(w) : w \in MatchRows(Y) }
GroupTuple(w) == RelTuple(w.rels)

\* mutant: collect without DISTINCT
RelsListAll(g, Y) ==
    BagOf({<<w, GroupTuple(w)>> : w \in {v \in MatchRows(Y) : GroupKey(v) = g}})

\* collect(DISTINCT [...]) AS relslist
RelsList(g, Y) ==
    Distinct(BagOf({<<w, GroupTuple(w)>> : w \in {v \in MatchRows(Y) : GroupKey(v) = g}}))

\* [(node)-[:CHILD_OF]->(n:News)-[:PUBLISHED_BY]->(Company) | Company.company_name]
\* (Company is a variable here: any PUBLISHED_BY target)
PublisherName(m) == Prop(m.pub.end, "company_name")
CompanyList(node, n) ==
    BagOf({ <<m, PublisherName(m)>> :
              m \in { x \in [child : db.rels, pub : db.rels] :
                        /\ x.child.type = "CHILD_OF" /\ x.child.start = node
                        /\ x.child.end = n /\ "News" \in Labels(n)
                        /\ x.pub.type = "PUBLISHED_BY" /\ x.pub.start = n } })

\* [(node)-[:CHILD_OF]->(n:News) | n.url]
ParentUrl(r) == Prop(r.end, "url")
UrlList(node, n) ==
    BagOf({ <<r, ParentUrl(r)>> :
              r \in { x \in db.rels : /\ x.type = "CHILD_OF" /\ x.start = node
                                      /\ x.end = n /\ "News" \in Labels(n) } })

\* n.body AS text, score, node {...} AS metadata
Row(g, Y) ==
    [text     |-> Prop(g.n, "body"),
     score    |-> Score(g.node),
     metadata |-> [score    |-> Score(g.node),
                   split_id |-> Prop(g.node, "split_id"),
                   company  |-> CompanyList(g.node, g.n),
                   url      |-> UrlList(g.node, g.n),
                   graph    |-> RelsList(g, Y)]]

\* mutant: RETURN without DISTINCT
ReturnRowsAll(Y) == BagOf({<<g, Row(g, Y)>> : g \in Groups(Y)})

\* RETURN DISTINCT
ReturnRows(Y) == Distinct(BagOf({<<g, Row(g, Y)>> : g \in Groups(Y)}))

\* mutant: no LIMIT
LimitRowsAll(B) == {B}

\* LIMIT 3 with no ORDER BY: any 3 of the rows
LimitRows(B) ==
    { S \in SubBag(B) : BagSize(S) = MinOf(Limit, BagSize(B)) }

\* the results of the whole query for the yielded chunks Y
QueryResults(Y) == LimitRows(ReturnRows(Y))

\* mutant: no score threshold
ScoreFilterOff(B) == B

\* similarity_score_threshold: keep the documents scoring at least the threshold
ScoreFilter(B) ==
    LET keep == {r \in DOMAIN B : r.score >= ScoreThreshold}
    IN  [r \in keep |-> B[r]]

(***************************************************************************)
(* The request                                                             *)
(***************************************************************************)
\* mutant: the model is invoked before the retrieval
StageAfterModelFirst(s) ==
    CASE s = "chain"  -> "llm"
      [] s = "llm"    -> "embed"
      [] s = "embed"  -> "query"
      [] s = "query"  -> "filter"
      [] s = "filter" -> "return"
      [] OTHER        -> "done"

\* the stages of the chain run one after the other: input check, query
\* embedding, the database round trip, the threshold, the model, the return
StageAfter(s) ==
    CASE s = "chain"  -> "embed"
      [] s = "embed"  -> "query"
      [] s = "query"  -> "filter"
      [] s = "filter" -> "llm"
      [] s = "llm"    -> "return"
      [] OTHER        -> "done"

\* mutant: the failed stage is tried again
OnFailureRetry(s) == s

\* nothing catches an exception: the request ends at the stage that raised
OnFailure(s) == "failed"

\* generate_response(prompt): response = kg_qa({"question": prompt})
GenerateResponse(p) ==
    /\ pc = "idle"
    /\ caller' = "generate_response"
    /\ inputs' = [key |-> CallKey, value |-> p]
    /\ pc' = "chain"
    /\ UNCHANGED <<db, yielded, bundles, docs, llmInput, outputs, result, error, calls>>

\* kg_qa invoked directly, under the chain's own input key
KgQa(p) ==
    /\ pc = "idle"
    /\ caller' = "kg_qa"
    /\ inputs' = [key |-> InputKey, value |-> p]
    /\ pc' = "chain"
    /\ UNCHANGED <<db, yielded, bundles, docs, llmInput, outputs, result, error, calls>>

\* the chain checks that its input key is among the inputs
ValidateInputs ==
    /\ pc = "chain"
    /\ IF inputs.key = InputKey
          THEN pc' = StageAfter("chain") /\ UNCHANGED error
          ELSE pc' = OnFailure("chain") /\ error' = "input_keys"
    /\ UNCHANGED <<db, caller, inputs, yielded, bundles, docs, llmInput, outputs, result, calls>>

\* the retriever embeds the question
EmbedQuery ==
    /\ pc = "embed"
    /\ calls' = [calls EXCEPT !.embed = @ + 1]
    /\ \/ pc' = StageAfter("embed") /\ UNCHANGED error
       \/ pc' = OnFailure("embed") /\ error' = "embedding"
    /\ UNCHANGED <<db, caller, inputs, yielded, bundles, docs, llmInput, outputs, result>>

\* one round trip to the database: the index call and RETRIEVAL_QUERY
RunQuery ==
    /\ pc = "query"
    /\ calls' = [calls EXCEPT !.db = @ + 1]
    /\ \/ \E Y \in TopK(K) : \E B \in QueryResults(Y) :
            /\ yielded' = Y
            /\ bundles' = B
            /\ pc' = StageAfter("query")
            /\ UNCHANGED error
       \/ \E e \in {"index", "traversal"} :
            /\ pc' = OnFailure("query")
            /\ error' = e
            /\ UNCHANGED <<yielded, bundles>>
    /\ UNCHANGED <<db, caller, inputs, docs, llmInput, outputs, result>>

\* the retriever drops the documents below the score threshold
FilterByScore ==
    /\ pc = "filter"
    /\ docs' = ScoreFilter(bundles)
    /\ pc' = StageAfter("filter")
    /\ UNCHANGED <<db, caller, inputs, yielded, bundles, llmInput, outputs, result, error, calls>>

\* the documents and the question are stuffed into one prompt for the model;
\* the chain answers under its output key
InvokeModel ==
    /\ pc = "llm"
    /\ calls' = [calls EXCEPT !.llm = @ + 1]
    /\ llmInput' = [context |-> docs, question |-> inputs.value, invoked |-> TRUE]
    /\ \/ \E a \in Answers :
            /\ outputs' = [key |-> OutputKey, value |-> a]
            /\ pc' = StageAfter("llm")
            /\ UNCHANGED error
       \/ /\ pc' = OnFailure("llm")
          /\ error' = "model"
          /\ UNCHANGED outputs
    /\ UNCHANGED <<db, caller, inputs, yielded, bundles, docs, result>>

\* generate_response: return response["answer"]; a direct caller takes the
\* value under the chain's output key
Return ==
    /\ pc = "return"
    /\ IF caller = "generate_response" /\ outputs.key # AnswerKey
          THEN pc' = OnFailure("return") /\ error' = "answer_key" /\ UNCHANGED result
          ELSE pc' = StageAfter("return") /\ result' = outputs.value /\ UNCHANGED error
    /\ UNCHANGED <<db, caller, inputs, yielded, bundles, docs, llmInput, outputs, calls>>

Next ==
    \/ \E p \in Prompts : GenerateResponse(p)
    \/ \E p \in Prompts : KgQa(p)
    \/ ValidateInputs
    \/ EmbedQuery
    \/ RunQuery
    \/ FilterByScore
    \/ InvokeModel
    \/ Return


Spec == Init /\ [][Next]_vars

(***************************************************************************)
(* Properties                                                              *)
(***************************************************************************)
Terminal == pc \in {"done", "failed"}
CollaboratorFailures == {"embedding", "index", "traversal", "model"}
\* the retrieval has returned and the threshold has been applied
DocsReady == pc \in {"llm", "return", "done"} \/ (pc = "failed" /\ error = "model")
\* the chunks retained by the vector retrieval: among the top k and at or
\* above the threshold
Retained == {ch \in yielded : Score(ch) >= 87}
RowsOf(B) == DOMAIN B
TuplesOf(r) == DOMAIN r.metadata.graph

\* C1: generate_response(prompt) submits the prompt to kg_qa and, when no
\* collaborator (embedding, index, traversal, model) fails, ends with the
\* model's answer as its result and never in an error.
C1_GenerateResponseReturnsAnswer ==
    (caller = "generate_response" /\ Terminal /\ error \notin CollaboratorFailures)
        => /\ pc = "done"
           /\ llmInput.invoked /\ llmInput.question = inputs.value
           /\ result = outputs.value /\ result \in Answers

\* The same request made through kg_qa under the chain's own key does end
\* with the model's answer.
KgQaReturnsAnswer ==
    (caller = "kg_qa" /\ Terminal /\ error \notin CollaboratorFailures)
        => /\ pc = "done"
           /\ llmInput.invoked /\ llmInput.question = inputs.value
           /\ result = outputs.value /\ result \in Answers

\* C2: at most 3 context bundles are assembled by the query, kept by the
\* threshold and handed to the language model, whatever the graph.
C2_AtMostThreeBundles ==
    /\ BagSize(bundles) <= 3
    /\ BagSize(docs) <= 3
    /\ BagSize(llmInput.context) <= 3

\* C2 witness: the model was invoked with 3 bundles cut out of more rows.
C2_Witness ==
    /\ llmInput.invoked
    /\ BagSize(llmInput.context) = 3
    /\ Cardinality(Groups(yielded)) > 3

\* C3: every bundle kept for (and handed to) the language model scores at
\* least 0.87 and comes from a yielded chunk with that score; no bundle of a
\* chunk below 0.87 is kept.
C3_BundlesMeetThreshold ==
    \A r \in RowsOf(docs) \cup RowsOf(llmInput.context) :
        /\ r.score >= 87
        /\ r.metadata.score >= 87
        /\ \E ch \in yielded : /\ Score(ch) = r.score
                               /\ Prop(ch, "split_id") = r.metadata.split_id

\* C3 witness: the query returned a bundle of a chunk below the threshold,
\* fewer than 3 bundles met it, and the model was invoked.
C3_Witness ==
    /\ llmInput.invoked
    /\ \E r \in RowsOf(bundles) : r.score < 87
    /\ BagSize(llmInput.context) \in 1..2

\* C4: the relationship list of every bundle holds no 6-tuple twice.
C4_NoDuplicateTuples ==
    \A r \in RowsOf(bundles) : \A t \in TuplesOf(r) : r.metadata.graph[t] = 1

\* C4 witness: a bundle whose relationships were each matched more than once
\* (parallel CHILD_OF or PUBLISHED_BY relationships) around a parent with
\* several publishers.
C4_Witness ==
    /\ bundles # EmptyBag
    /\ \E w1 \in MatchRows(yielded) : \E w2 \in MatchRows(yielded) :
          /\ w1 # w2 /\ GroupKey(w1) = GroupKey(w2) /\ w1.rels = w2.rels
    /\ \E g1 \in Groups(yielded) : \E g2 \in Groups(yielded) :
          g1.node = g2.node /\ g1.n = g2.n /\ g1.c # g2.c

\* the kinds and their attributes as the specification lists them
KindOrder == <<"Company", "News", "NewsCategory", "Date", "Industry", "Sector",
               "SubSector", "SuperSector", "Tag", "Person", "Organisation",
               "Position">>
AttrOfKind == [Company |-> "company_name", News |-> "headline_name",
               NewsCategory |-> "category", Date |-> "date",
               Industry |-> "industry", Sector |-> "sector",
               SubSector |-> "subsector", SuperSector |-> "supersector",
               Tag |-> "tag_name", Person |-> "person_name",
               Organisation |-> "organisation_name",
               Position |-> "position_name"]
\* the (node, label) pairs of the tuples of all bundles
Endpoints ==
    UNION { UNION { {<<t[1], t[2]>>, <<t[5], t[6]>>} : t \in TuplesOf(r) } :
            r \in RowsOf(bundles) }
Earlier(k1, k2) ==
    \E i \in 1..Len(KindOrder) : \E j \in 1..Len(KindOrder) :
        i < j /\ KindOrder[i] = k1 /\ KindOrder[j] = k2

\* C5 as stated: the label of a node tagged as a recognized kind is that
\* kind's attribute, for each recognized kind it is tagged as; the label of a
\* node of no recognized kind is empty.
C5_LabelOfEveryKind ==
    \A e \in Endpoints :
        /\ \A k \in Labels(e[1]) \cap RecognizedKinds : e[2] = Prop(e[1], AttrOfKind[k])
        /\ (Labels(e[1]) \cap RecognizedKinds = {}) => e[2] = EmptyMap

\* C5 amended: the label is the attribute of the first recognized kind, in
\* the listed order, among the node's labels; it is empty when the node has
\* no recognized kind.
C5_LabelOfFirstKind ==
    \A e \in Endpoints :
        /\ \A k \in Labels(e[1]) \cap RecognizedKinds :
              (\A k2 \in Labels(e[1]) \cap RecognizedKinds : ~Earlier(k2, k))
                  => e[2] = Prop(e[1], AttrOfKind[k])
        /\ (Labels(e[1]) \cap RecognizedKinds = {}) => e[2] = EmptyMap

\* C5 witness: a bundle with an endpoint of two recognized kinds whose
\* attributes are present, and an endpoint of no recognized kind.
C5_Witness ==
    /\ \E e \in Endpoints : /\ Cardinality(Labels(e[1]) \cap RecognizedKinds) = 2
                            /\ e[2] # Null
    /\ \E e \in Endpoints : Labels(e[1]) \cap RecognizedKinds = {}

\* C6: no endpoint of a tuple of any bundle is a Resource, SplitText or Rns
\* node.
C6_NoHelperEndpoints ==
    \A r \in RowsOf(bundles) : \A t \in TuplesOf(r) :
        /\ Labels(t[1]) \cap {"Resource", "SplitText", "Rns"} = {}
        /\ Labels(t[5]) \cap {"Resource", "SplitText", "Rns"} = {}

\* C6 witness: a bundle of a SplitText chunk whose parent also has a
\* relationship to a helper node besides the chunk.
C6_Witness ==
    \E r \in RowsOf(bundles) : \E t \in TuplesOf(r) : \E ch \in yielded :
        /\ "SplitText" \in Labels(ch)
        /\ r.metadata.split_id = Prop(ch, "split_id")
        /\ \E x \in db.rels : /\ x.type = "CHILD_OF" /\ x.start = ch
                              /\ x.end \in {t[1], t[5]}
        /\ \E y \in db.rels : /\ y.start \in {t[1], t[5]}
                              /\ Labels(y.end) \cap HelperKinds # {}
                              /\ y.end \notin db.chunks

\* C7: when no indexed chunk meets the threshold, a generate_response call
\* in which no collaborator fails ends with the model's answer, the model
\* having been invoked with zero bundles.
C7_EmptyRetrievalStillAnswers ==
    (/\ caller = "generate_response" /\ Terminal
     /\ error \notin CollaboratorFailures
     /\ \A ch \in db.chunks : Score(ch) < 87)
        => /\ pc = "done"
           /\ docs = EmptyBag
           /\ llmInput.invoked /\ llmInput.context = EmptyBag
           /\ result = outputs.value /\ result \in Answers

\* The same through kg_qa under the chain's own key.
KgQaEmptyRetrievalStillAnswers ==
    (/\ caller = "kg_qa" /\ Terminal
     /\ error \notin CollaboratorFailures
     /\ \A ch \in db.chunks : Score(ch) < 87)
        => /\ pc = "done"
           /\ docs = EmptyBag
           /\ llmInput.invoked /\ llmInput.context = EmptyBag
           /\ result = outputs.value /\ result \in Answers

\* C8: once a stage has failed the request has ended in failure: the failed
\* stage was invoked once, no later stage was invoked, nothing is returned,
\* and no step follows.
C8_FailurePropagates ==
    /\ [](error # "none" =>
            /\ pc = "failed"
            /\ result = "none"
            /\ error = "input_keys" => calls = [embed |-> 0, db |-> 0, llm |-> 0]
            /\ error = "embedding" => calls = [embed |-> 1, db |-> 0, llm |-> 0]
            /\ error \in {"index", "traversal"} =>
                  /\ calls = [embed |-> 1, db |-> 1, llm |-> 0]
                  /\ ~llmInput.invoked
            /\ error = "model" =>
                  /\ calls = [embed |-> 1, db |-> 1, llm |-> 1]
                  /\ outputs.key = "none")
    /\ [][error = "none"]_vars

\* C8 witness: the model invocation failed after bundles had been retrieved.
C8_Witness ==
    /\ error = "model"
    /\ pc = "failed"
    /\ docs # EmptyBag

\* the parent documents of a chunk that the query matches: a News document
\* the chunk is a child of, published by a Company, with a one-hop
\* relationship none of whose ends is a helper node
Admissible(n) ==
    { r \in db.rels : /\ n \in {r.start, r.end}
                      /\ Labels(r.start) \cap HelperKinds = {}
                      /\ Labels(r.end) \cap HelperKinds = {} }
MatchedParents(ch) ==
    { n \in NodeIds :
        /\ "News" \in Labels(n)
        /\ \E r \in db.rels : r.type = "CHILD_OF" /\ r.start = ch /\ r.end = n
        /\ \E r \in db.rels : /\ r.type = "PUBLISHED_BY" /\ r.start = n
                              /\ "Company" \in Labels(r.end)
        /\ Admissible(n) # {} }
\* bundle r holds what the query assembles for chunk ch and parent n
BundleOf(r, ch, n) ==
    /\ r.text = Prop(n, "body")
    /\ r.score = Score(ch)
    /\ r.metadata.score = Score(ch)
    /\ r.metadata.split_id = Prop(ch, "split_id")
    /\ DOMAIN r.metadata.company =
          {Prop(x.end, "company_name") :
              x \in {y \in db.rels : y.type = "PUBLISHED_BY" /\ y.start = n}}
    /\ DOMAIN r.metadata.url = {Prop(n, "url")}
    /\ {<<t[1], t[3], t[4], t[5]>> : t \in TuplesOf(r)} =
          {<<x.start, x.id, x.type, x.end>> : x \in Admissible(n)}

\* C9 as stated: the bundles kept are as many as the retained chunks.
C9_OneBundlePerRetainedChunk ==
    DocsReady => BagSize(docs) = Cardinality(Retained)

\* C9 amended: every bundle kept belongs to a retained chunk and one matched
\* parent of it and holds that parent's text, the chunk's score and the
\* metadata; when every yielded chunk has at most one matched parent, every
\* retained chunk has one, and no two retained chunks agree on score, chunk
\* identifier and parent, each retained chunk has exactly one bundle and the
\* bundles are as many as the retained chunks.
C9_BundlesOfMatchedParents ==
    DocsReady =>
        /\ \A r \in RowsOf(docs) :
              /\ docs[r] = 1
              /\ \E ch \in Retained : \E n \in MatchedParents(ch) : BundleOf(r, ch, n)
        /\ (/\ \A ch \in yielded : Cardinality(MatchedParents(ch)) <= 1
            /\ \A ch \in Retained : Cardinality(MatchedParents(ch)) = 1
            /\ \A c1 \in Retained : \A c2 \in Retained \ {c1} :
                  \/ Score(c1) # Score(c2)
                  \/ Prop(c1, "split_id") # Prop(c2, "split_id")
                  \/ MatchedParents(c1) # MatchedParents(c2))
           => /\ BagSize(docs) = Cardinality(Retained)
              /\ \A ch \in Retained :
                    Cardinality({r \in RowsOf(docs) :
                        \E n \in MatchedParents(ch) : BundleOf(r, ch, n)}) = 1

\* C9 witness: two or more retained chunks, each with one matched parent
\* that has two publishers, and one bundle for each.
C9_Witness ==
    /\ DocsReady
    /\ Cardinality(Retained) >= 2
    /\ \A ch \in yielded : Cardinality(MatchedParents(ch)) = 1
    /\ \A ch \in Retained : \A n \in MatchedParents(ch) :
          Cardinality({r \in db.rels : r.type = "PUBLISHED_BY" /\ r.start = n}) = 2
    /\ BagSize(docs) = Cardinality(Retained)

\* C10: each collaborator is invoked at most once in a request, and the
\* model is invoked only after the one database round trip has returned,
\* with the bundles that round trip fixed.
C10_StagesInSequence ==
    /\ calls.embed <= 1 /\ calls.db <= 1 /\ calls.llm <= 1
    /\ (calls.llm = 1) = llmInput.invoked
    /\ pc \in {"idle", "chain", "embed", "query"} => calls.llm = 0
    /\ pc \in {"idle", "chain", "embed"} => calls.db = 0
    /\ calls.db = 1 => calls.embed = 1
    /\ llmInput.invoked =>
          /\ calls.db = 1
          /\ llmInput.context = docs
          /\ docs = ScoreFilter(bundles)

\* C10 witness: the model has been invoked with the bundles of the finished
\* retrieval.
C10_Witness ==
    /\ llmInput.invoked
    /\ calls = [embed |-> 1, db |-> 1, llm |-> 1]
    /\ llmInput.context # EmptyBag
====
